---- MODULE Spec2Model ----
(***************************************************************************)
(* Model of the longitudinal metrics pipeline of analyze_repository.py:    *)
(* the walk over the commits (analyze_repository), the per-commit fold,    *)
(* the two accumulators, the final sort, and calculate_entropy.            *)
(*                                                                         *)
(* Numbers.  Python computes the entropy and the ownership mean in         *)
(* floating point.  The model computes them exactly:                       *)
(*   - a quotient is a reduced fraction <<n, d>> with d > 0;               *)
(*   - a value built from log2 is a vector v over the primes, standing for *)
(*     SUM_p v[p] * log2(p) with rational v[p].  log2 of the primes are    *)
(*     linearly independent over the rationals, so two such values are     *)
(*     equal exactly when their vectors are.                               *)
(* Time is counted in days; a datetime is the day number.                  *)
(***************************************************************************)
EXTENDS Integers, Sequences, FiniteSets, TLC

\* ------------------------------------------------------------------ bounds
MaxCommits == 2      \* commits iter_commits yields in one walk
MaxEntries == 4      \* entries of a mapping handed to calculate_entropy
MaxCount == 2        \* largest change count in such a mapping

\* timedelta(days=365)
RetentionDays == 365

\* ------------------------------------------------------------ input domains
Authors == {"a", "b"}
Files == {"m.py", "n.java", "r.txt"}

\* datetime.now() of the run, and the largest timestamp datetime can hold
Now == RetentionDays + 1
DatetimeMax == Now + 1
Timestamps == {Now - RetentionDays - 1, Now - RetentionDays, Now, DatetimeMax + 1}

\* What reading one changed file at a commit does: the blob is read and
\* analysed ("ok"), commit.tree / file or the read raises ("missing"), or
\* measure_cyclomatic_complexity raises on the text ("unparsable").
\* The failures are drawn for m.py; n.java runs through the same try block.
BlobOutcomes(f) == IF f = "m.py" THEN {"ok", "missing", "unparsable"} ELSE {"ok"}

\* commit.stats.files[file]['insertions'] / ['deletions']
Insertions(f) == CASE f = "m.py" -> 3 [] f = "n.java" -> 5 [] OTHER -> 7
Deletions(f) == CASE f = "m.py" -> 1 [] f = "n.java" -> 2 [] OTHER -> 4

\* results of the content metric extractors on the text of a file
CyclomaticComplexity(f) == CASE f = "m.py" -> 2 [] OTHER -> 4
MaintainabilityIndex(f) == 60
CohesionLcom(f) == CASE f = "m.py" -> 1 [] OTHER -> 2
CouplingImports(f) == CASE f = "m.py" -> 1 [] OTHER -> 3

\* os.path.splitext(file)[1]
splitext(f) == CASE f = "m.py" -> ".py" [] f = "n.java" -> ".java" [] OTHER -> ".txt"
\* file.endswith(('.py', '.java'))
endswith_accepted(f) == splitext(f) \in {".py", ".java"}

\* A commit as the history walker hands it over: author.email, committed_date
\* and, per changed file (the keys of stats.files), what reading it does.
\* A failure is drawn in commits that change accepted files only: a file of
\* an excluded extension takes no part in what a failure touches.
FileMaps ==
    UNION { { m \in [S -> {"ok", "missing", "unparsable"}] :
                /\ \A f \in S : m[f] \in BlobOutcomes(f)
                /\ (\E f \in S : m[f] # "ok") => \A f \in S : endswith_accepted(f) }
            : S \in SUBSET Files }
\* Of a commit the loop skips, neither the author nor the files are read: the
\* walk draws such commits with one author and one set of files.
Commits ==
    { c \in [author : Authors, committed_date : Timestamps, files : FileMaps] :
        (c.committed_date > DatetimeMax \/ c.committed_date < Now - RetentionDays)
            => c.author = "a" /\ c.files = ("m.py" :> "ok" @@ "r.txt" :> "ok") }

VARIABLES
    walked,                   \* the commits iter_commits has yielded so far
    data,                     \* the list of emitted records
    file_ownership,           \* defaultdict(set): file -> authors
    commit_counts_by_author,  \* Counter: author -> commits
    file_change_counter,      \* the local mapping of the last commit folded
    df,                       \* the table analyze_repository returns
    pc,                       \* "walk", "done", or "crashed"
    last,                     \* how the last step ended
    prev,                     \* the accumulators and records before that step
    change_counts,            \* argument of a direct call of calculate_entropy
    entropy                   \* its result

vars == <<walked, data, file_ownership, commit_counts_by_author,
          file_change_counter, df, pc, last, prev, change_counts, entropy>>

\* ------------------------------------------------------------- arithmetic
Abs(n) == IF n < 0 THEN -n ELSE n
Max(a, b) == IF a >= b THEN a ELSE b

RECURSIVE Gcd(_, _)
Gcd(a, b) == IF b = 0 THEN a ELSE Gcd(b, a % b)

\* the quotient n / d, d # 0, reduced
Frac(n, d) ==
    LET g == Gcd(Abs(n), Abs(d))
        s == IF d < 0 THEN -1 ELSE 1
    IN <<(s * n) \div g, (s * d) \div g>>
FracAdd(x, y) == Frac(x[1] * y[2] + y[1] * x[2], x[2] * y[2])
FracNeg(x) == <<-x[1], x[2]>>

MaxTotal == Max(MaxEntries * MaxCount, Cardinality(Files))
Primes == {p \in 2..MaxTotal : \A q \in 2..(p - 1) : p % q # 0}

\* the exponent of the prime p in n >= 1
RECURSIVE Vp(_, _)
Vp(p, n) == IF n % p = 0 THEN 1 + Vp(p, n \div p) ELSE 0

ZeroVec == [p \in Primes |-> <<0, 1>>]
VecAdd(u, v) == [p \in Primes |-> FracAdd(u[p], v[p])]
VecNeg(u) == [p \in Primes |-> FracNeg(u[p])]

\* (count / total) * math.log2(count / total), 0 < count <= total
EntropyTerm(count, total) ==
    [p \in Primes |-> Frac(count * (Vp(p, count) - Vp(p, total)), total)]

RECURSIVE SumValues(_)
SumValues(m) ==
    IF DOMAIN m = {} THEN 0
    ELSE LET k == CHOOSE k \in DOMAIN m : TRUE
         IN m[k] + SumValues([j \in DOMAIN m \ {k} |-> m[j]])

RECURSIVE SumTerms(_, _)
SumTerms(m, total) ==
    IF DOMAIN m = {} THEN ZeroVec
    ELSE LET k == CHOOSE k \in DOMAIN m : TRUE
         IN VecAdd(EntropyTerm(m[k], total),
                   SumTerms([j \in DOMAIN m \ {k} |-> m[j]], total))

\* What a call gives: the value returned, or the exception raised (then
\* `value` is a filler that nothing reads).
Return(v) == [raised |-> "", value |-> v]
Raise(e, filler) == [raised |-> e, value |-> filler]

\* calculate_entropy without its guard `if total == 0: return 0`
calculate_entropy_unguarded(counts) ==
    LET total == SumValues(counts)
    IN IF total = 0 THEN Raise("ZeroDivisionError", ZeroVec)
       ELSE IF \E k \in DOMAIN counts : counts[k] = 0 THEN Raise("ValueError", ZeroVec)
       ELSE Return(VecNeg(SumTerms(counts, total)))

\* calculate_entropy: 0 when the counts sum to 0; math.log2(0.0) raises
\* ValueError when a count is 0 and the sum is not.
calculate_entropy(counts) ==
    LET total == SumValues(counts)
    IN IF total = 0 THEN Return(ZeroVec)
       ELSE IF \E k \in DOMAIN counts : counts[k] = 0 THEN Raise("ValueError", ZeroVec)
       ELSE Return(VecNeg(SumTerms(counts, total)))

\* ------------------------------------------------------- the per-commit fold
\* datetime.fromtimestamp(commit.committed_date): raises beyond the range of
\* datetime, else the datetime (the day number)
fromtimestamp(ts) == IF ts > DatetimeMax THEN Raise("OverflowError", 0) ELSE Return(ts)

\* one_year_ago = datetime.now() - timedelta(days=365)
one_year_ago == Now - RetentionDays

\* the loop without its retention test
before_window_never(commit_date) == FALSE

\* commit_date < one_year_ago
before_window(commit_date) == commit_date < one_year_ago

\* the commit passes both `continue`s at the head of the loop body
Qualifies(c) ==
    /\ fromtimestamp(c.committed_date).raised = ""
    /\ ~before_window(fromtimestamp(c.committed_date).value)

\* the mapping counting changed lines in place of files
IncrCounter_lines(m, f) ==
    IF f \in DOMAIN m THEN [m EXCEPT ![f] = @ + Insertions(f) + Deletions(f)]
    ELSE m @@ (f :> Insertions(f) + Deletions(f))

\* file_change_counter[file] += 1 on a defaultdict(int)
IncrCounter(m, f) ==
    IF f \in DOMAIN m THEN [m EXCEPT ![f] = @ + 1] ELSE m @@ (f :> 1)

\* file_ownership[file] = {author_email}: the last author replaces the set
AddOwner_replace(m, f, a) ==
    IF f \in DOMAIN m THEN [m EXCEPT ![f] = {a}] ELSE m @@ (f :> {a})

\* file_ownership[file].add(author_email) on a defaultdict(set)
AddOwner(m, f, a) ==
    IF f \in DOMAIN m THEN [m EXCEPT ![f] = @ \cup {a}] ELSE m @@ (f :> {a})

\* commit_counts_by_author[author_email] = 1
IncrAuthor_assign(counts, a) == [counts EXCEPT ![a] = 1]

\* commit_counts_by_author[author_email] += 1
IncrAuthor(counts, a) == [counts EXCEPT ![a] = @ + 1]

\* the per-commit sums and the local mapping, as set before the file loop
ZeroSums ==
    [churn_add |-> 0, churn_del |-> 0, file_count |-> 0, complexity_total |-> 0,
     mi_total |-> 0, lcom_total |-> 0, import_count_total |-> 0,
     file_change_counter |-> << >>, file_ownership |-> << >>]

\* one pass of the loop body over a changed file
FoldFile(acc, c, f) ==
    LET seen == [acc EXCEPT
                    !.file_change_counter = IncrCounter(@, f),
                    !.file_ownership = AddOwner(@, f, c.author)]
        counted == [seen EXCEPT
                    !.churn_add = @ + Insertions(f),
                    !.churn_del = @ + Deletions(f),
                    !.file_count = @ + 1]
    IN IF ~endswith_accepted(f) THEN seen
       ELSE IF c.files[f] = "missing" THEN seen
       ELSE IF c.files[f] = "unparsable" THEN counted
       ELSE [counted EXCEPT
                !.complexity_total = @ + CyclomaticComplexity(f),
                !.mi_total = @ + (IF splitext(f) = ".py" THEN MaintainabilityIndex(f) ELSE 0),
                !.import_count_total = @ + CouplingImports(f),
                !.lcom_total = @ + CohesionLcom(f)]

\* for file in commit.stats.files: ...
RECURSIVE FoldFiles(_, _, _)
FoldFiles(acc, c, todo) ==
    IF todo = {} THEN acc
    ELSE LET f == CHOOSE f \in todo : TRUE
         IN FoldFiles(FoldFile(acc, c, f), c, todo \ {f})

RECURSIVE SumOwners(_)
SumOwners(m) ==
    IF DOMAIN m = {} THEN 0
    ELSE LET f == CHOOSE f \in DOMAIN m : TRUE
         IN Cardinality(m[f]) + SumOwners([g \in DOMAIN m \ {f} |-> m[g]])

\* sum(len(owners) for owners in file_ownership.values()) / len(file_ownership)
OwnershipMean(m) ==
    IF Cardinality(DOMAIN m) = 0 THEN Raise("ZeroDivisionError", <<0, 1>>)
    ELSE Return(Frac(SumOwners(m), Cardinality(DOMAIN m)))

\* the record built with the author's count as it was before this commit
Record_stale(hexsha, c, acc, counts, ownership) ==
    [commit_hash |-> hexsha,
     commit_date |-> fromtimestamp(c.committed_date).value,
     author |-> c.author,
     files_changed |-> acc.file_count,
     lines_added |-> acc.churn_add,
     lines_deleted |-> acc.churn_del,
     total_cyclomatic_complexity |-> acc.complexity_total,
     total_maintainability_index |-> acc.mi_total,
     total_cohesion_metric_lcom |-> acc.lcom_total,
     total_coupling_metric_imports |-> acc.import_count_total,
     code_entropy |-> calculate_entropy(acc.file_change_counter).value,
     commit_frequency_by_author |-> counts[c.author] - 1,
     unique_authors_per_file_avg |-> OwnershipMean(ownership).value]

\* the dict appended to data
Record(hexsha, c, acc, counts, ownership) ==
    [commit_hash |-> hexsha,
     commit_date |-> fromtimestamp(c.committed_date).value,
     author |-> c.author,
     files_changed |-> acc.file_count,
     lines_added |-> acc.churn_add,
     lines_deleted |-> acc.churn_del,
     total_cyclomatic_complexity |-> acc.complexity_total,
     total_maintainability_index |-> acc.mi_total,
     total_cohesion_metric_lcom |-> acc.lcom_total,
     total_coupling_metric_imports |-> acc.import_count_total,
     code_entropy |-> calculate_entropy(acc.file_change_counter).value,
     commit_frequency_by_author |-> counts[c.author],
     unique_authors_per_file_avg |-> OwnershipMean(ownership).value]

\* ---------------------------------------------------------------- the sort
\* rows s in non-decreasing commit_date order
SortedByDate(s) == \A i, j \in 1..Len(s) : i < j => s[i].commit_date <= s[j].commit_date
\* the table returned as collected, without sort_values
sort_values_skipped(rows) == {rows}

\* df.sort_values('commit_date'): the default kind is quicksort, which is not
\* stable, so the result is any arrangement of the rows in non-decreasing
\* commit_date order.
sort_values(rows) ==
    LET n == Len(rows)
        perms == {p \in [1..n -> 1..n] : \A i, j \in 1..n : p[i] = p[j] => i = j}
    IN {s \in {[i \in 1..n |-> rows[p[i]]] : p \in perms} : SortedByDate(s)}

\* ------------------------------------------------------------------ actions
\* The sums, the local mapping and file_ownership after the file loop of c.
FoldCommit(c) ==
    FoldFiles([ZeroSums EXCEPT !.file_ownership = file_ownership], c, DOMAIN c.files)

\* file_ownership, commit_counts_by_author and data as they stand
Accumulated ==
    [file_ownership |-> file_ownership,
     commit_counts_by_author |-> commit_counts_by_author,
     data |-> data]

Init ==
    /\ walked = << >>
    /\ data = << >>
    /\ file_ownership = << >>
    /\ commit_counts_by_author = [a \in Authors |-> 0]
    /\ file_change_counter = << >>
    /\ df = << >>
    /\ pc = "walk"
    /\ last = "start"
    /\ prev = Accumulated
    /\ change_counts = << >>
    /\ entropy = Raise("uncalled", ZeroVec)

\* datetime.fromtimestamp raises: except: continue
SkipUndated ==
    /\ pc = "walk"
    /\ Len(walked) < MaxCommits
    /\ \E c \in Commits :
           /\ fromtimestamp(c.committed_date).raised # ""
           /\ walked' = Append(walked, c)
           /\ last' = "undated"
           /\ prev' = Accumulated
           /\ UNCHANGED <<data, file_ownership, commit_counts_by_author,
                          file_change_counter, df, pc, change_counts, entropy>>

\* if commit_date < one_year_ago: continue
SkipOld ==
    /\ pc = "walk"
    /\ Len(walked) < MaxCommits
    /\ \E c \in Commits :
           /\ fromtimestamp(c.committed_date).raised = ""
           /\ before_window(fromtimestamp(c.committed_date).value)
           /\ walked' = Append(walked, c)
           /\ last' = "old"
           /\ prev' = Accumulated
           /\ UNCHANGED <<data, file_ownership, commit_counts_by_author,
                          file_change_counter, df, pc, change_counts, entropy>>

\* the loop body from the counter increment to data.append
EmitRecord ==
    /\ pc = "walk"
    /\ Len(walked) < MaxCommits
    /\ \E c \in Commits :
           /\ Qualifies(c)
           /\ LET acc == FoldCommit(c)
                  counts == IncrAuthor(commit_counts_by_author, c.author)
              IN /\ OwnershipMean(acc.file_ownership).raised = ""
                 /\ walked' = Append(walked, c)
                 /\ commit_counts_by_author' = counts
                 /\ file_ownership' = acc.file_ownership
                 /\ file_change_counter' = acc.file_change_counter
                 /\ data' = Append(data, Record(Len(walked) + 1, c, acc, counts, acc.file_ownership))
                 /\ last' = "emitted"
                 /\ prev' = Accumulated
           /\ UNCHANGED <<df, pc, change_counts, entropy>>

\* the same body when len(file_ownership) is 0 at data.append: the division
\* raises ZeroDivisionError, nothing catches it, analyze_repository ends
AbortZeroDivision ==
    /\ pc = "walk"
    /\ Len(walked) < MaxCommits
    /\ \E c \in Commits :
           /\ Qualifies(c)
           /\ LET acc == FoldCommit(c)
              IN /\ OwnershipMean(acc.file_ownership).raised # ""
                 /\ walked' = Append(walked, c)
                 /\ commit_counts_by_author' = IncrAuthor(commit_counts_by_author, c.author)
                 /\ file_ownership' = acc.file_ownership
                 /\ file_change_counter' = acc.file_change_counter
                 /\ pc' = "crashed"
                 /\ last' = "ZeroDivisionError"
                 /\ prev' = Accumulated
           /\ UNCHANGED <<data, df, change_counts, entropy>>

\* iter_commits is exhausted: DataFrame, to_datetime (the dates are datetimes
\* already and stay as they are), sort_values, to_csv, return df
Finish ==
    /\ pc = "walk"
    /\ data # << >>
    /\ df' \in sort_values(data)
    /\ pc' = "done"
    /\ last' = "returned"
    /\ prev' = Accumulated
    /\ UNCHANGED <<walked, data, file_ownership, commit_counts_by_author,
                   file_change_counter, change_counts, entropy>>

\* the same with no record: DataFrame([]) has no column, df['commit_date']
\* raises KeyError
FinishEmpty ==
    /\ pc = "walk"
    /\ data = << >>
    /\ pc' = "crashed"
    /\ last' = "KeyError"
    /\ prev' = Accumulated
    /\ UNCHANGED <<walked, data, file_ownership, commit_counts_by_author,
                   file_change_counter, df, change_counts, entropy>>

Next ==
    \/ SkipUndated
    \/ SkipOld
    \/ EmitRecord
    \/ AbortZeroDivision
    \/ Finish
    \/ FinishEmpty

Spec == Init /\ [][Next]_vars

\* ------------------------------------------- calculate_entropy called alone
EntropyKeys == 1..MaxEntries
CountMaps == UNION { [S -> 0..MaxCount] : S \in SUBSET EntropyKeys }

InitEntropy ==
    /\ walked = << >>
    /\ data = << >>
    /\ file_ownership = << >>
    /\ commit_counts_by_author = [a \in Authors |-> 0]
    /\ file_change_counter = << >>
    /\ df = << >>
    /\ pc = "walk"
    /\ last = "start"
    /\ prev = Accumulated
    /\ change_counts \in CountMaps
    /\ entropy = Raise("uncalled", ZeroVec)

CallEntropy ==
    /\ entropy.raised = "uncalled"
    /\ entropy' = calculate_entropy(change_counts)
    /\ UNCHANGED <<walked, data, file_ownership, commit_counts_by_author,
                   file_change_counter, df, pc, last, prev, change_counts>>

NextEntropy == CallEntropy

SpecEntropy == InitEntropy /\ [][NextEntropy]_vars

\* =========================================================== the claims
\* What the claims speak of, stated from the commits walked and not from the
\* accumulators.
Undated(c) == c.committed_date > DatetimeMax
OlderThanWindow(c) == ~Undated(c) /\ c.committed_date < Now - RetentionDays
Qualifying(c) == ~Undated(c) /\ ~OlderThanWindow(c)
QualPositions == {i \in 1..Len(walked) : Qualifying(walked[i])}
Changed(i) == DOMAIN walked[i].files
QualUpTo(i) == {j \in 1..i : Qualifying(walked[j])}
SeenUpTo(i) == UNION {Changed(j) : j \in QualUpTo(i)}
OwnersUpTo(i, f) ==
    {walked[j].author : j \in {j \in 1..i : Qualifying(walked[j]) /\ f \in Changed(j)}}
Analysed(i) ==
    {f \in Changed(i) : splitext(f) \in {".py", ".java"} /\ walked[i].files[f] = "ok"}

RECURSIVE SumOver(_, _)
SumOver(g, S) ==
    IF S = {} THEN 0
    ELSE LET x == CHOOSE x \in S : TRUE IN g[x] + SumOver(g, S \ {x})

\* log2(k), k >= 1
Log2(k) == [p \in Primes |-> <<Vp(p, k), 1>>]

\* b^e, or Cap when that is larger
Cap == 2^30
RECURSIVE PowCapped(_, _)
PowCapped(b, e) ==
    IF e = 0 THEN 1
    ELSE LET r == PowCapped(b, e - 1)
         IN IF r > Cap \div b THEN Cap ELSE r * b
RECURSIVE ProdCapped(_, _)
ProdCapped(e, P) ==
    IF P = {} THEN 1
    ELSE LET p == CHOOSE p \in P : TRUE
             r == ProdCapped(e, P \ {p})
             q == PowCapped(p, e[p])
         IN IF q = Cap \/ r = Cap \/ r > Cap \div q THEN Cap ELSE r * q
RECURSIVE Lcm(_)
Lcm(S) ==
    IF S = {} THEN 1
    ELSE LET x == CHOOSE x \in S : TRUE
             r == Lcm(S \ {x})
         IN (x * r) \div Gcd(x, r)
\* SUM_p v[p] * log2(p) >= 0: with D a common denominator and e[p] = D * v[p],
\* the product of p^e[p] over e[p] > 0 is at least that of p^-e[p] over e[p] < 0
NonNegative(v) ==
    LET D == Lcm({v[p][2] : p \in Primes})
        e == [p \in Primes |-> v[p][1] * (D \div v[p][2])]
        pos == ProdCapped([p \in Primes |-> IF e[p] > 0 THEN e[p] ELSE 0], Primes)
        neg == ProdCapped([p \in Primes |-> IF e[p] < 0 THEN -e[p] ELSE 0], Primes)
    IN neg < Cap /\ pos >= neg

\* the number of (file, author) pairs with the author among the owners of the
\* file up to commit i
OwnerPairsUpTo(i) == SumOver([f \in Files |-> Cardinality(OwnersUpTo(i, f))], Files)

\* C1: a changed .py or .java file whose retrieval or analysis fails adds
\* nothing to files_changed, lines_added, lines_deleted or the four metric sums
\* of its commit: every record carries the sums over the files that were read
\* and analysed, and a qualifying commit that changes a file has its record.
C1_FailedFileAddsNothing ==
    /\ \A k \in 1..Len(data) :
         LET i == data[k].commit_hash
             ok == Analysed(i)
         IN /\ data[k].files_changed = Cardinality(ok)
            /\ data[k].lines_added = SumOver([f \in Files |-> Insertions(f)], ok)
            /\ data[k].lines_deleted = SumOver([f \in Files |-> Deletions(f)], ok)
            /\ data[k].total_cyclomatic_complexity
                 = SumOver([f \in Files |-> CyclomaticComplexity(f)], ok)
            /\ data[k].total_maintainability_index
                 = SumOver([f \in Files |-> MaintainabilityIndex(f)],
                           {f \in ok : splitext(f) = ".py"})
            /\ data[k].total_cohesion_metric_lcom
                 = SumOver([f \in Files |-> CohesionLcom(f)], ok)
            /\ data[k].total_coupling_metric_imports
                 = SumOver([f \in Files |-> CouplingImports(f)], ok)
    /\ \A i \in QualPositions :
         Changed(i) # {} => \E k \in 1..Len(data) : data[k].commit_hash = i

\* C2: a qualifying commit that changes no file, walked while no file has been
\* seen, gets a record with unique_authors_per_file_avg = 0 and
\* code_entropy = 0, and the walk does not end there.
C2_EmptyDenominatorsGiveZero ==
    \A i \in QualPositions :
        SeenUpTo(i) = {} =>
            /\ pc # "crashed"
            /\ \E k \in 1..Len(data) :
                 /\ data[k].commit_hash = i
                 /\ data[k].unique_authors_per_file_avg = <<0, 1>>
                 /\ data[k].code_entropy = ZeroVec

\* C3: the table returned has exactly one row per qualifying commit, no
\* commit_hash twice, and its rows are in non-decreasing commit_date order,
\* whatever the order of the walk.
C3_OneRowPerCommitInDateOrder ==
    pc = "done" =>
        /\ Len(df) = Cardinality(QualPositions)
        /\ {df[k].commit_hash : k \in 1..Len(df)} = QualPositions
        /\ \A k \in 1..Len(df) : df[k].commit_date = walked[df[k].commit_hash].committed_date
        /\ \A k \in 1..(Len(df) - 1) : df[k].commit_date <= df[k + 1].commit_date
\* a table of two rows or more returned after a walk that met a later commit
\* before an earlier one
C3_Witness ==
    /\ pc = "done"
    /\ Len(df) >= 2
    /\ data[1].commit_date > data[2].commit_date
    /\ df[1].commit_hash = 2

\* C4: every record carries the number of qualifying commits of its author
\* walked up to and including its own; the counter holds that number for the
\* whole walk, and no step lowers it.
C4_FrequencyCountsCommitsSoFar ==
    /\ \A k \in 1..Len(data) :
         data[k].commit_frequency_by_author =
            Cardinality({j \in QualUpTo(data[k].commit_hash) :
                            walked[j].author = data[k].author})
    /\ \A a \in Authors :
         /\ commit_counts_by_author[a] =
               Cardinality({j \in QualPositions : walked[j].author = a})
         /\ commit_counts_by_author[a] >= prev.commit_counts_by_author[a]
\* the second qualifying commit of one author has just been recorded with 2
C4_Witness ==
    /\ last = "emitted"
    /\ Len(data) = 2
    /\ data[1].author = data[2].author
    /\ data[2].commit_frequency_by_author = 2

\* C5: no step removes a file or an author from file_ownership; once a commit
\* is recorded each file it changed holds its author; and the record's
\* unique_authors_per_file_avg is the number of (file, author) pairs seen up to
\* that commit over the number of files seen up to it.
C5_OwnershipOnlyGrows ==
    /\ \A f \in DOMAIN prev.file_ownership :
         /\ f \in DOMAIN file_ownership
         /\ prev.file_ownership[f] \subseteq file_ownership[f]
    /\ \A k \in 1..Len(data) :
         LET i == data[k].commit_hash
         IN /\ \A f \in Changed(i) :
                 f \in DOMAIN file_ownership /\ walked[i].author \in file_ownership[f]
            /\ SeenUpTo(i) # {}
            /\ data[k].unique_authors_per_file_avg
                 = Frac(OwnerPairsUpTo(i), Cardinality(SeenUpTo(i)))
\* a second author has just changed m.py, its blob missing, after a commit of
\* m.py and a file of an excluded extension, and the mean is 3/2
C5_Witness ==
    /\ last = "emitted"
    /\ Len(data) = 2
    /\ walked[Len(walked)].files = ("m.py" :> "missing")
    /\ file_ownership = ("m.py" :> Authors @@ "r.txt" :> {data[1].author})
    /\ data[2].unique_authors_per_file_avg = <<3, 2>>

\* C6: walking a commit that is older than the window, or whose timestamp
\* cannot be converted, leaves both accumulators and the records as they were
\* and leaves the walk running.
C6_SkippedCommitChangesNothing ==
    (/\ last \in {"undated", "old", "emitted", "ZeroDivisionError"}
     /\ ~Qualifying(walked[Len(walked)]))
        => /\ Accumulated = prev
           /\ pc = "walk"
\* a commit older than the window has just been walked after a recorded one
C6_Witness ==
    /\ last = "old"
    /\ Len(data) = 1
    /\ OlderThanWindow(walked[Len(walked)])
    /\ pc = "walk"

\* C7: calculate_entropy returns 0 for the empty mapping, 0 for a mapping of
\* one entry, log2(k) for k entries of one positive count (1 for k = 2, 2 for
\* k = 4), and a value that is never negative.
AllPositive(m) == \A k \in DOMAIN m : m[k] > 0
C7_EntropyOfEqualCounts ==
    entropy.raised # "uncalled" =>
        LET k == Cardinality(DOMAIN change_counts)
        IN /\ k = 0 => entropy = Return(ZeroVec)
           /\ AllPositive(change_counts) =>
                /\ entropy.raised = ""
                /\ NonNegative(entropy.value)
                /\ k = 1 => entropy.value = ZeroVec
                /\ (k >= 1 /\ \A x, y \in DOMAIN change_counts : change_counts[x] = change_counts[y])
                      => entropy.value = Log2(k)
                /\ (k = 2 /\ \A x, y \in DOMAIN change_counts : change_counts[x] = change_counts[y])
                      => entropy.value = [p \in Primes |-> IF p = 2 THEN <<1, 1>> ELSE <<0, 1>>]
                /\ (k = 4 /\ \A x, y \in DOMAIN change_counts : change_counts[x] = change_counts[y])
                      => entropy.value = [p \in Primes |-> IF p = 2 THEN <<2, 1>> ELSE <<0, 1>>]
\* the call has returned 2 = log2(4) for four entries of count 2
C7_Witness ==
    /\ entropy.raised = ""
    /\ Cardinality(DOMAIN change_counts) = 4
    /\ \A x \in DOMAIN change_counts : change_counts[x] = 2
    /\ entropy.value[2] = <<2, 1>>

\* C8: two rows of the returned table with one commit_date stand in the
\* order in which the walk recorded them.
C8_SortIsStable ==
    pc = "done" =>
        \A i, j \in 1..Len(df) :
            (i < j /\ df[i].commit_date = df[j].commit_date)
                => df[i].commit_hash < df[j].commit_hash

\* C9: each changed file enters the local mapping with count 1, so a record's
\* code_entropy is 0 for at most one changed file and log2(k) for k of them;
\* a commit that changes only a file of an excluded extension is recorded
\* with code_entropy 0, files_changed 0 and every sum 0.
C9_EntropyCountsFilesOnly ==
    /\ last \in {"emitted", "ZeroDivisionError"} =>
         /\ DOMAIN file_change_counter = Changed(Len(walked))
         /\ \A f \in DOMAIN file_change_counter : file_change_counter[f] = 1
    /\ \A k \in 1..Len(data) :
         LET i == data[k].commit_hash
             n == Cardinality(Changed(i))
         IN /\ data[k].code_entropy = (IF n <= 1 THEN ZeroVec ELSE Log2(n))
            /\ (n = 1 /\ \A f \in Changed(i) : splitext(f) \notin {".py", ".java"})
                 => /\ data[k].code_entropy = ZeroVec
                    /\ data[k].files_changed = 0
                    /\ data[k].lines_added = 0
                    /\ data[k].lines_deleted = 0
                    /\ data[k].total_cyclomatic_complexity = 0
                    /\ data[k].total_maintainability_index = 0
                    /\ data[k].total_cohesion_metric_lcom = 0
                    /\ data[k].total_coupling_metric_imports = 0
\* a commit of r.txt alone and a commit of all three files are both recorded
C9_Witness ==
    /\ Len(data) = 2
    /\ Changed(data[1].commit_hash) = {"r.txt"}
    /\ data[1].files_changed = 0
    /\ Changed(data[2].commit_hash) = Files
    /\ data[2].code_entropy = Log2(3)

\* C10: an author's records carry 1, 2, ..., n in the order of the walk; so
\* after a walk that met the commits latest first, all dates distinct, the
\* author's values fall from row to row of the returned table, and each row
\* carries the number of the author's records dated at or after it.
C10_FrequencyFollowsWalkOrder ==
    /\ \A k \in 1..Len(data) :
         data[k].commit_frequency_by_author =
            Cardinality({j \in 1..k : data[j].author = data[k].author})
    /\ (pc = "done"
        /\ \A i, j \in 1..Len(data) : i < j => data[i].commit_date > data[j].commit_date)
         => \A i \in 1..Len(df) :
              /\ \A j \in 1..Len(df) :
                   (i < j /\ df[i].author = df[j].author)
                      => df[i].commit_frequency_by_author > df[j].commit_frequency_by_author
              /\ df[i].commit_frequency_by_author =
                   Cardinality({j \in 1..Len(df) :
                       df[j].author = df[i].author /\ df[j].commit_date >= df[i].commit_date})
\* one author's two commits, walked latest first, are returned with 2 on the
\* older row and 1 on the newer
C10_Witness ==
    /\ pc = "done"
    /\ Len(df) = 2
    /\ data[1].commit_date > data[2].commit_date
    /\ df[1].author = df[2].author
    /\ df[1].commit_frequency_by_author = 2
    /\ df[2].commit_frequency_by_author = 1

====
